---- MODULE Spec2Model ----
(***************************************************************************)
(* Model of ableton_log: the node wrappers of ableton_diff.py (tag-keyed   *)
(* shallow_equal, ignored-tag filtering) and the recursive, order-aware    *)
(* child alignment of recurse_diff.                                        *)
(*                                                                         *)
(* Conventions.  A Python string is a tuple of one-character strings; an   *)
(* optional value (None or a value) is a tuple of length 0 or 1; an        *)
(* attribute mapping is a set of <<key, value>> pairs with unique keys; a  *)
(* raw element is a record [tag, attrib, text, kids].  A change record is  *)
(* a tuple <<"added", n>>, <<"removed", n>>, <<"unchanged", old, new>> or  *)
(* <<"changed", new, nested>>.                                             *)
(***************************************************************************)
EXTENDS Integers, Sequences, FiniteSets, TLC

VARIABLES oldnode, newnode, pc, i, j, changes, result, iters, eq, calls,
          registry_keys, repo, cursor, diffs, printed, account

vars ==
    <<oldnode, newnode, pc, i, j, changes, result, iters, eq, calls, registry_keys,
      repo, cursor, diffs, printed, account>>

\* the state of the history walker
walker == <<repo, cursor, diffs, printed>>

----------------------------------------------------------------------------
(* Raw elements and strings                                                *)

None == <<>>

Some(x) == <<x>>

Element(tag, attrib, text, kids) ==
    [tag |-> tag, attrib |-> attrib, text |-> text, kids |-> kids]

IGNORED_TAGS ==
    {"AnchorTime", "GroupedTracksRevealed", "IsContentSelected", "NoteEditorFoldInZoom",
     "NoteEditorFoldInScroll", "OtherTime", "SelectedDevice", "SelectedEnvelope",
     "TrackUnfolded", "ClientSize", "HighlightedTrackIndex", "ViewStateDetailIsSample",
     "CurrentTime", "LastSelectedTimeableIndex", "GridIntervalPixel", "CurrentZoom",
     "ViewStateSessionMixerHeight"}

StripChars == {" ", "\n", "\r", "\t"}

RECURSIVE LStrip(_)
LStrip(s) ==
    IF s # <<>> /\ s[1] \in StripChars THEN LStrip(Tail(s)) ELSE s

RECURSIVE RStrip(_)
RStrip(s) ==
    IF s # <<>> /\ s[Len(s)] \in StripChars THEN RStrip(SubSeq(s, 1, Len(s) - 1)) ELSE s

\* str.strip(" \n\r\t")
Strip(s) == RStrip(LStrip(s))

\* mutation: text empty after trimming is kept as a text
OrNoneKeepsEmpty(s) == Some(s)

OrNone(s) == IF s = <<>> THEN None ELSE Some(s)

\* GenericNode.text: the trimmed text, None when missing or empty after trimming
text(n) == IF n.text = None THEN None ELSE OrNone(Strip(n.text[1]))

HasAttr(attrib, k) == \E p \in attrib : p[1] = k

Attr(attrib, k) == (CHOOSE p \in attrib : p[1] = k)[2]

\* dict.pop(k) as far as the remaining mapping goes
Pop(attrib, k) == {p \in attrib : p[1] # k}

----------------------------------------------------------------------------
(* Decimal(...).quantize(Decimal(".01")), default context: ROUND_HALF_EVEN *)

DigitVal ==
    ("0" :> 0) @@ ("1" :> 1) @@ ("2" :> 2) @@ ("3" :> 3) @@ ("4" :> 4) @@
    ("5" :> 5) @@ ("6" :> 6) @@ ("7" :> 7) @@ ("8" :> 8) @@ ("9" :> 9)

RECURSIVE ParseDigits(_)
ParseDigits(s) ==
    IF s = <<>> THEN 0
    ELSE ParseDigits(SubSeq(s, 1, Len(s) - 1)) * 10 + DigitVal[s[Len(s)]]

RECURSIVE Pow10(_)
Pow10(k) == IF k = 0 THEN 1 ELSE 10 * Pow10(k - 1)

IsNegative(s) == s # <<>> /\ s[1] = "-"

Unsigned(s) == IF IsNegative(s) THEN Tail(s) ELSE s

\* the position of the decimal point, Len + 1 when there is none
PointAt(body) ==
    IF \E k \in 1..Len(body) : body[k] = "."
    THEN CHOOSE k \in 1..Len(body) : body[k] = "."
    ELSE Len(body) + 1

DecimalOf(neg, body, p) ==
    [neg  |-> neg,
     coef |-> ParseDigits(SubSeq(body, 1, p - 1) \o SubSeq(body, p + 1, Len(body))),
     frac |-> IF p > Len(body) THEN 0 ELSE Len(body) - p]

\* Decimal(s) for a plain numeral [-]digits[.digits]: sign, coefficient and
\* number of fractional digits
Decimal(s) == DecimalOf(IsNegative(s), Unsigned(s), PointAt(Unsigned(s)))

\* mutation: the digits after the second are dropped instead of rounded
RoundDown(coef, unit) == coef \div unit

\* coef / unit rounded to an integer, ties to the even neighbour
RoundHalfEven(coef, unit) ==
    IF \/ 2 * (coef % unit) > unit
       \/ (2 * (coef % unit) = unit /\ (coef \div unit) % 2 = 1)
    THEN (coef \div unit) + 1
    ELSE coef \div unit

Magnitude(d) ==
    IF d.frac <= 2 THEN d.coef * Pow10(2 - d.frac)
    ELSE RoundHalfEven(d.coef, Pow10(d.frac - 2))

\* d.quantize(Decimal(".01")) as a signed number of hundredths
quantize(d) == IF d.neg THEN 0 - Magnitude(d) ELSE Magnitude(d)

----------------------------------------------------------------------------
(* Node model: shallow_equal per registered class, children filtering      *)

\* mutation: the `or self.text == other.text` alternative left out
TextEqualBothNone(t, u) == t = None /\ u = None

\* self.text is None and other.text is None or self.text == other.text
text_equal(t, u) == (t = None /\ u = None) \/ t = u

\* GenericNode.shallow_equal
GenericNode_shallow_equal(self, other) ==
    /\ self.tag = other.tag
    /\ self.attrib = other.attrib
    /\ text_equal(text(self), text(other))

\* LeftTime.shallow_equal raises KeyError when a Value attribute is missing
LeftTime_shallow_equal_raises(self, other) ==
    /\ self.tag = other.tag
    /\ text_equal(text(self), text(other))
    /\ (~HasAttr(self.attrib, "Value") \/ ~HasAttr(other.attrib, "Value"))

\* LeftTime.shallow_equal (inherited by RightTime)
LeftTime_shallow_equal(self, other) ==
    IF self.tag = other.tag /\ text_equal(text(self), text(other))
    THEN /\ quantize(Decimal(Attr(self.attrib, "Value")))
                = quantize(Decimal(Attr(other.attrib, "Value")))
         /\ Pop(self.attrib, "Value") = Pop(other.attrib, "Value")
    ELSE FALSE

\* node.xpath("MidiKey/@Value"): the Value attributes of the MidiKey children
Values(keys) == [x \in 1..Len(keys) |-> Attr(keys[x].attrib, "Value")]

xpath_MidiKey_Value(n) ==
    LET IsKey(k) == k.tag = "MidiKey" /\ HasAttr(k.attrib, "Value")
    IN  Values(SelectSeq(n.kids, IsKey))

\* KeyTrack.shallow_equal raises IndexError when either side has no MidiKey/@Value
KeyTrack_shallow_equal_raises(self, other) ==
    xpath_MidiKey_Value(self) = <<>> \/ xpath_MidiKey_Value(other) = <<>>

\* KeyTrack.shallow_equal
KeyTrack_shallow_equal(self, other) ==
    /\ GenericNode_shallow_equal(self, other)
    /\ xpath_MidiKey_Value(self)[1] = xpath_MidiKey_Value(other)[1]

\* registry[node.tag]: the class whose shallow_equal the wrapper of n uses
\* the keys of registry once the module is loaded: one per @register class
REGISTERED ==
    {"LeftTime", "RightTime", "MidiClip", "AudioClip", "MidiTrack", "GroupTrack",
     "KeyTrack", "Scene"}

\* the keys that node_factory(n) leaves in registry: registry is a defaultdict,
\* so registry[node.tag] stores the default under a tag it did not hold
Lookup(n) == IF n.tag \in IGNORED_TAGS THEN {} ELSE {n.tag}

registry(tag) ==
    IF tag \in {"LeftTime", "RightTime"} THEN "LeftTime"
    ELSE IF tag = "KeyTrack" THEN "KeyTrack"
    ELSE "GenericNode"

shallow_equal_raises(self, other) ==
    CASE registry(self.tag) = "LeftTime" -> LeftTime_shallow_equal_raises(self, other)
      [] registry(self.tag) = "KeyTrack" -> KeyTrack_shallow_equal_raises(self, other)
      [] OTHER -> FALSE

shallow_equal(self, other) ==
    CASE registry(self.tag) = "LeftTime" -> LeftTime_shallow_equal(self, other)
      [] registry(self.tag) = "KeyTrack" -> KeyTrack_shallow_equal(self, other)
      [] OTHER -> GenericNode_shallow_equal(self, other)

\* mutation: every element gets a wrapper
NodeFactoryKeepsAll(n) == Some(n)

\* node_factory returns no wrapper for an ignored tag
node_factory(n) == IF n.tag \notin IGNORED_TAGS THEN Some(n) ELSE None

\* GenericNode.iter_children: the wrapped children, ignored ones filtered out
iter_children(n) ==
    LET Kept(k) == node_factory(k) # None
    IN  SelectSeq(n.kids, Kept)

----------------------------------------------------------------------------
(* recurse_diff: the alignment loop, one outer iteration at a time         *)
(* st.i / st.j: how many old / new children the cursors have passed        *)

\* the forward scan of next_new_children from position `from`: the first
\* position where the comparison with old_child raises or matches, else 0
Least(hits) == IF hits = {} THEN 0 ELSE CHOOSE k \in hits : \A h \in hits : k <= h

\* mutation: the scan goes on to the last match
ScanStopLast(old_child, nc, from) ==
    Least({k \in from..Len(nc) :
               /\ shallow_equal_raises(old_child, nc[k]) \/ shallow_equal(old_child, nc[k])
               /\ \A m \in (k + 1)..Len(nc) :
                      ~(shallow_equal_raises(old_child, nc[m]) \/ shallow_equal(old_child, nc[m]))})

\* mutation: the scan looks at the new children from the first one on
ScanStopFromStart(old_child, nc, from) ==
    Least({k \in 1..Len(nc) :
               \/ shallow_equal_raises(old_child, nc[k])
               \/ shallow_equal(old_child, nc[k])})

ScanStop(old_child, nc, from) ==
    Least({k \in from..Len(nc) :
               \/ shallow_equal_raises(old_child, nc[k])
               \/ shallow_equal(old_child, nc[k])})

\* mutation: an old child not found by the scan is paired with the new child
ScanBranchInPlace(old_child, nc, k) ==
    IF k = 0 THEN "unchanged"
    ELSE IF shallow_equal_raises(old_child, nc[k]) THEN "raise"
    ELSE "found"

\* how the forward scan for old_child ends, k being where it stops
ScanBranch(old_child, nc, k) ==
    IF k = 0 THEN "nomatch"
    ELSE IF shallow_equal_raises(old_child, nc[k]) THEN "raise"
    ELSE "found"

\* which branch of the loop body the next outer iteration takes
Branch(oc, nc, st) ==
    IF st.i = Len(oc)
    THEN IF st.j = Len(nc) THEN "break" ELSE "added"
    ELSE IF st.j = Len(nc) THEN "removed"
    ELSE IF shallow_equal_raises(oc[st.i + 1], nc[st.j + 1]) THEN "raise"
    ELSE IF shallow_equal(oc[st.i + 1], nc[st.j + 1]) THEN "unchanged"
    ELSE ScanBranch(oc[st.i + 1], nc, ScanStop(oc[st.i + 1], nc, st.j + 2))

\* mutation: the matched new child is recorded as added with the skipped ones
AddedThroughMatch(nc, from, to) ==
    [x \in 1..(to - from + 2) |-> <<"added", nc[from + x - 1]>>]

Added(nc, from, to) == [x \in 1..(to - from + 1) |-> <<"added", nc[from + x - 1]>>]

\* mutation: the old child stays under the old cursor after a match
FoundKeepsOld(nc, st, k) ==
    [st EXCEPT !.j = k, !.changes = @ \o Added(nc, st.j + 1, k - 1)]

\* mutation: the intermediary changes are not committed
FoundNoCommit(nc, st, k) == [st EXCEPT !.i = @ + 1, !.j = k]

\* the match-found branch, k being the position of the match:
\* changes.extend(intermediary_changes); new_children = next_new_children
Found(nc, st, k) ==
    [st EXCEPT !.i = @ + 1, !.j = k, !.changes = @ \o Added(nc, st.j + 1, k - 1)]

\* mutation: a new child left over is passed without a record
OldExhaustedSilent(nc, st) == [st EXCEPT !.j = @ + 1]

\* mutation: the loop ends as soon as the old children are exhausted
OldExhaustedStops(nc, st) == [st EXCEPT !.pc = "assemble"]

\* old exhausted: changes.append(('added', new_child))
OldExhausted(nc, st) ==
    [st EXCEPT !.j = @ + 1, !.changes = Append(@, <<"added", nc[st.j + 1]>>)]

\* mutation: the old child left over is recorded as added
NewExhaustedAsAdded(oc, st) ==
    [st EXCEPT !.i = @ + 1, !.changes = Append(@, <<"added", oc[st.i + 1]>>)]

\* new exhausted: changes.append(('removed', old_child))
NewExhausted(oc, st) ==
    [st EXCEPT !.i = @ + 1, !.changes = Append(@, <<"removed", oc[st.i + 1]>>)]

\* mutation: the new child of an equal pair stays under the new cursor
UnchangedKeepsNew(oc, nc, st) ==
    [st EXCEPT !.i = @ + 1,
               !.changes = Append(@, <<"unchanged", oc[st.i + 1], nc[st.j + 1]>>)]

\* changes.append(('unchanged', old_child, new_child))
Unchanged(oc, nc, st) ==
    [st EXCEPT !.i = @ + 1, !.j = @ + 1,
               !.changes = Append(@, <<"unchanged", oc[st.i + 1], nc[st.j + 1]>>)]

\* mutation: the old child is reported but stays under the old cursor
NoMatchKeepsOld(oc, st) ==
    [st EXCEPT !.changes = Append(@, <<"removed", oc[st.i + 1]>>)]

\* mutation: the new cursor is not put back
NoMatchNoRollback(oc, st) ==
    [st EXCEPT !.i = @ + 1, !.j = @ + 1,
               !.changes = Append(@, <<"removed", oc[st.i + 1]>>)]

\* the scan found nothing: changes.append(('removed', old_child));
\* new_children = chain([new_child], new_children) puts the new cursor back
NoMatch(oc, st) ==
    [st EXCEPT !.i = @ + 1, !.changes = Append(@, <<"removed", oc[st.i + 1]>>)]

\* the effect of one outer iteration of `while True` that takes branch b
BranchBody(b, oc, nc, st) ==
    CASE b = "break" -> [st EXCEPT !.pc = "assemble"]
      [] b = "added" -> OldExhausted(nc, st)
      [] b = "removed" -> NewExhausted(oc, st)
      [] b = "raise" -> [st EXCEPT !.i = @ + 1, !.pc = "raised"]
      [] b = "unchanged" -> Unchanged(oc, nc, st)
      [] b = "nomatch" -> NoMatch(oc, st)
      [] b = "found" -> Found(nc, st, ScanStop(oc[st.i + 1], nc, st.j + 2))

\* mutation: the scan starts over at the new child just compared
ComparisonsRescan(b, oc, nc, st) ==
    CASE b = "unchanged" -> 1
      [] b = "nomatch" -> Len(nc) - st.j + 1
      [] b = "found" -> ScanStop(oc[st.i + 1], nc, st.j + 2) - st.j + 1
      [] b = "raise" -> 1
      [] OTHER -> 0

\* how many times old_child.shallow_equal is called in an outer iteration
\* that takes branch b: once on new_child, then once on each next_new_child
\* up to where the scan stops
Comparisons(b, oc, nc, st) ==
    CASE b = "unchanged" -> 1
      [] b = "nomatch" -> Len(nc) - st.j
      [] b = "found" -> ScanStop(oc[st.i + 1], nc, st.j + 2) - st.j
      [] b = "raise" ->
            IF shallow_equal_raises(oc[st.i + 1], nc[st.j + 1]) THEN 1
            ELSE ScanStop(oc[st.i + 1], nc, st.j + 2) - st.j
      [] OTHER -> 0

\* the last new child that an outer iteration taking branch b draws from
\* new_children or from its copy next_new_children
NewReach(b, oc, nc, st) ==
    CASE b \in {"added", "unchanged"} -> st.j + 1
      [] b = "nomatch" -> Len(nc)
      [] b = "found" -> ScanStop(oc[st.i + 1], nc, st.j + 2)
      [] b = "raise" ->
            IF shallow_equal_raises(oc[st.i + 1], nc[st.j + 1]) THEN st.j + 1
            ELSE ScanStop(oc[st.i + 1], nc, st.j + 2)
      [] OTHER -> st.j

\* the tags that node_factory looks up in registry during that iteration:
\* iter_children wraps a child when the iterator is advanced to it
Drawn(b, oc, nc, st) ==
    (IF st.i < Len(oc) THEN {oc[st.i + 1].tag} ELSE {})
        \cup {nc[k].tag : k \in (st.j + 1)..NewReach(b, oc, nc, st)}

\* what becomes of the children drawn in an outer iteration taking branch b,
\* by position: a new child added, an old child removed, or an old and a new
\* child taken for the same node, by the direct comparison or by the scan
Accounted(b, oc, nc, st) ==
    CASE b = "added" -> <<<<"added", st.j + 1>>>>
      [] b \in {"removed", "nomatch"} -> <<<<"removed", st.i + 1>>>>
      [] b = "unchanged" -> <<<<"matched", st.i + 1, st.j + 1>>>>
      [] b = "found" ->
            [x \in 1..(ScanStop(oc[st.i + 1], nc, st.j + 2) - st.j - 1) |-> <<"added", st.j + x>>]
                \o <<<<"matched", st.i + 1, ScanStop(oc[st.i + 1], nc, st.j + 2)>>>>
      [] OTHER -> <<>>

\* one outer iteration of `while True`
LoopBody(oc, nc, st) == BranchBody(Branch(oc, nc, st), oc, nc, st)

LoopStart == [i |-> 0, j |-> 0, changes |-> <<>>, pc |-> "loop"]

RECURSIVE Align(_, _, _)
Align(oc, nc, st) ==
    IF st.pc # "loop" THEN st ELSE Align(oc, nc, LoopBody(oc, nc, st))

\* mutation: a record is made for every pair, whatever its nested diff
ChangedAlways(new, child_changes) == << <<"changed", new, child_changes>> >>

\* if child_changes: changes_result.append(('changed', change[2], child_changes))
Changed(new, child_changes) ==
    IF child_changes # <<>> THEN << <<"changed", new, child_changes>> >> ELSE <<>>

RECURSIVE recurse_diff(_, _)
\* what one entry of changes contributes to changes_result
Assembled(change) ==
    IF change[1] \in {"added", "removed"} THEN <<change>>
    ELSE Changed(change[3], recurse_diff(change[2], change[3]))

RECURSIVE ChangesResultReversed(_)
\* mutation: each record is put in front of the records already assembled
ChangesResultReversed(chs) ==
    IF chs = <<>> THEN <<>> ELSE ChangesResultReversed(Tail(chs)) \o Assembled(Head(chs))

RECURSIVE changes_result(_)
\* the result assembly: added/removed kept, unchanged pairs diffed recursively
changes_result(chs) ==
    IF chs = <<>> THEN <<>> ELSE Assembled(Head(chs)) \o changes_result(Tail(chs))

\* mutation: the two nodes given are compared before their children are
RecurseDiffFromRoots(old, new) ==
    IF shallow_equal_raises(old, new) \/ ~shallow_equal(old, new)
    THEN <<<<"removed", old>>, <<"added", new>>>>
    ELSE changes_result(Align(iter_children(old), iter_children(new), LoopStart).changes)

RECURSIVE DrawnByLoop(_, _, _)
\* the tags looked up by the alignment loop from state st on
DrawnByLoop(oc, nc, st) ==
    IF st.pc # "loop" THEN {}
    ELSE Drawn(Branch(oc, nc, st), oc, nc, st) \cup DrawnByLoop(oc, nc, LoopBody(oc, nc, st))

\* recurse_diff(oldnode, newnode) when it returns
recurse_diff(old, new) ==
    changes_result(Align(iter_children(old), iter_children(new), LoopStart).changes)

RECURSIVE recurse_diff_raises(_, _)
\* whether the result assembly of chs ends in an exception of a recursive call
assembly_raises(chs) ==
    \E k \in 1..Len(chs) :
        chs[k][1] = "unchanged" /\ recurse_diff_raises(chs[k][2], chs[k][3])

\* whether the alignment that ended in st, or its result assembly, raised
ended_raising(st) == st.pc = "raised" \/ assembly_raises(st.changes)

\* whether recurse_diff(oldnode, newnode) ends in an exception
recurse_diff_raises(old, new) ==
    ended_raising(Align(iter_children(old), iter_children(new), LoopStart))

RECURSIVE DrawnByCall(_, _)
RECURSIVE DrawnByAssembly(_)
\* the tags looked up by the recursive calls of the result assembly of chs,
\* which goes no further than a call that raises
DrawnByAssembly(chs) ==
    IF chs = <<>> THEN {}
    ELSE IF Head(chs)[1] # "unchanged" THEN DrawnByAssembly(Tail(chs))
    ELSE DrawnByCall(Head(chs)[2], Head(chs)[3])
             \cup (IF recurse_diff_raises(Head(chs)[2], Head(chs)[3]) THEN {}
                   ELSE DrawnByAssembly(Tail(chs)))

\* the tags looked up after the alignment has ended in st
DrawnAfter(st) == IF st.pc = "raised" THEN {} ELSE DrawnByAssembly(st.changes)

\* the tags looked up in registry by a call recurse_diff(old, new)
DrawnByCall(old, new) ==
    DrawnByLoop(iter_children(old), iter_children(new), LoopStart)
        \cup DrawnAfter(Align(iter_children(old), iter_children(new), LoopStart))

----------------------------------------------------------------------------
(* Input documents                                                         *)

MaxNodes == 4

MaxKids == 2

MaxEdited == 3

MaxStepNodes == 3

MaxStepKids == 2

MaxSame == 3

MaxScan == 3

\* elements without children, the labels the trees are built from
PlainA == Element("a", {}, None, <<>>)

TextA == Element("a", {}, Some(<<"x">>), <<>>)

BlankA == Element("a", {}, Some(<<" ", "\n">>), <<>>)

AttrA == Element("a", {<<"dummy", <<"1">>>>}, None, <<>>)

PlainB == Element("b", {}, None, <<>>)

Anchor == Element("AnchorTime", {}, None, <<>>)

Left(v) == Element("LeftTime", {<<"Value", v>>}, None, <<>>)

LeftNoValue == Element("LeftTime", {}, None, <<>>)

MidiKey(v) == Element("MidiKey", {<<"Value", v>>}, None, <<>>)

KeyTrack(ks) == Element("KeyTrack", {}, None, ks)

Root(ks) == Element("root", {}, None, ks)

RECURSIVE Forests(_, _)
\* the sequences of trees with n elements in all, labelled from heads
Forests(n, heads) ==
    IF n = 0 THEN {<<>>}
    ELSE UNION {
            {<<[h EXCEPT !.kids = ks]>> \o f :
                 h \in heads, ks \in Forests(k - 1, heads), f \in Forests(n - k, heads)}
            : k \in 1..n}

ForestsUpTo(n, heads) == UNION {Forests(k, heads) : k \in 0..n}

\* pairs of documents with at most n elements below the two roots together
NestedPairs(n, heads) ==
    UNION {Forests(a, heads) \X ForestsUpTo(n - a, heads) : a \in 0..n}

SeqsUpTo(n, S) == UNION {[1..k -> S] : k \in 0..n}

FlatPairs(n, S) == SeqsUpTo(n, S) \X SeqsUpTo(n, S)

\* s with x put after its first k elements, s without its k-th element
InsertAt(s, k, x) == SubSeq(s, 1, k) \o <<x>> \o SubSeq(s, k + 1, Len(s))

RemoveAt(s, k) == SubSeq(s, 1, k - 1) \o SubSeq(s, k + 1, Len(s))

\* the sequences one insertion, deletion or replacement away from s
Edits(s, S) ==
    {InsertAt(s, k, x) : k \in 0..Len(s), x \in S}
        \cup {RemoveAt(s, k) : k \in 1..Len(s)}
        \cup {[s EXCEPT ![k] = x] : k \in 1..Len(s), x \in S}

\* pairs of flat documents one edit apart
EditPairs(n, S) == UNION {{<<s, t>> : t \in Edits(s, S)} : s \in SeqsUpTo(n, S)}

NestedHeads == {PlainA, PlainB, Anchor}

Siblings == {PlainA, TextA, AttrA, Left(<<"1", ".", "0", "0", "4">>)}

KeySiblings ==
    {PlainA, KeyTrack(<<>>), KeyTrack(<<MidiKey(<<"6", "0">>)>>),
     KeyTrack(<<MidiKey(<<"6", "1">>)>>)}

KeyPairs == FlatPairs(2, KeySiblings)

SameHeads ==
    {TextA, Anchor, Left(<<"1", ".", "0", "0", "4">>), LeftNoValue,
     KeyTrack(<<>>), MidiKey(<<"6", "0">>)}

\* documents of two children, each with or without a child of its own
TwoParents ==
    {<<[PlainA EXCEPT !.kids = ka], [PlainB EXCEPT !.kids = kb]>> :
         ka \in {<<>>, <<PlainB>>}, kb \in {<<>>, <<PlainA>>}}

\* two parents after a child that only the old document has and before a
\* child that only the new document has
Interleaved ==
    {<<TextA>> \o d : d \in TwoParents} \X {d \o <<AttrA>> : d \in TwoParents}

\* a parent that the scan finds behind a new child, either member of the
\* pair with or without a child of its own
ScanParents ==
    {<<<<[PlainA EXCEPT !.kids = ka]>>, <<TextA, [PlainA EXCEPT !.kids = kb]>>>> :
         ka \in {<<>>, <<PlainB>>}, kb \in {<<>>, <<PlainB>>}}

\* at most two old children against a longer run of new children
ScanPairs ==
    SeqsUpTo(2, {PlainA, TextA}) \X [1..MaxScan -> {PlainA, TextA, AttrA}]

\* inputs of the step-by-step runs
StepInputs ==
    NestedPairs(MaxStepNodes, NestedHeads) \cup FlatPairs(MaxStepKids, Siblings)
        \cup KeyPairs \cup (TwoParents \X TwoParents) \cup ScanPairs \cup Interleaved
        \cup ScanParents

\* inputs of the whole-call runs
RunInputs ==
    NestedPairs(MaxNodes, NestedHeads) \cup FlatPairs(MaxKids, Siblings)
        \cup EditPairs(MaxEdited, Siblings) \cup KeyPairs

SameInputs == ForestsUpTo(MaxSame, SameHeads)

----------------------------------------------------------------------------
(* Step-by-step run of recurse_diff(oldnode, newnode) at the root level    *)

\* no history is being walked
NoWalk ==
    /\ repo = <<>>
    /\ cursor = 0
    /\ diffs = <<>>
    /\ printed = <<>>

old_children == iter_children(oldnode)

new_children == iter_children(newnode)

St == [i |-> i, j |-> j, changes |-> changes, pc |-> pc]

Init ==
    /\ \E p \in StepInputs : oldnode = Root(p[1]) /\ newnode = Root(p[2])
    /\ pc = "loop"
    /\ i = 0
    /\ j = 0
    /\ changes = <<>>
    /\ result = <<>>
    /\ iters = 0
    /\ eq = FALSE
    /\ calls = 0
    /\ registry_keys = REGISTERED \cup Lookup(oldnode) \cup Lookup(newnode)
    /\ NoWalk
    /\ account = <<>>

\* the loop's variables after an iteration
Becomes(st) ==
    /\ i' = st.i
    /\ j' = st.j
    /\ changes' = st.changes
    /\ pc' = st.pc

\* one outer iteration taking branch b
Iterate(b) ==
    /\ Branch(old_children, new_children, St) = b
    /\ Becomes(BranchBody(b, old_children, new_children, St))
    /\ iters' = IF b \in {"break", "raise"} THEN iters ELSE iters + 1
    /\ calls' = calls + Comparisons(b, old_children, new_children, St)
    /\ registry_keys' = registry_keys \cup Drawn(b, old_children, new_children, St)
    /\ account' = account \o Accounted(b, old_children, new_children, St)
    /\ UNCHANGED <<oldnode, newnode, result, eq, walker>>

LoopBreak ==
    /\ pc = "loop"
    /\ Iterate("break")

LoopAdded ==
    /\ pc = "loop"
    /\ Iterate("added")

LoopRemoved ==
    /\ pc = "loop"
    /\ Iterate("removed")

LoopUnchanged ==
    /\ pc = "loop"
    /\ Iterate("unchanged")

LoopFound ==
    /\ pc = "loop"
    /\ Iterate("found")

LoopNoMatch ==
    /\ pc = "loop"
    /\ Iterate("nomatch")

LoopRaise ==
    /\ pc = "loop"
    /\ Iterate("raise")

\* the result assembly, with the recursive calls it makes
Assemble ==
    /\ pc = "assemble"
    /\ IF assembly_raises(changes)
       THEN pc' = "raised" /\ result' = <<>>
       ELSE pc' = "done" /\ result' = changes_result(changes)
    /\ registry_keys' = registry_keys \cup DrawnByAssembly(changes)
    /\ UNCHANGED <<oldnode, newnode, i, j, changes, iters, eq, calls, walker, account>>

Next ==
    \/ LoopBreak
    \/ LoopAdded
    \/ LoopRemoved
    \/ LoopUnchanged
    \/ LoopFound
    \/ LoopNoMatch
    \/ LoopRaise
    \/ Assemble

Spec == Init /\ [][Next]_vars

----------------------------------------------------------------------------
(* Whole-call runs: recurse_diff applied to a pair of documents            *)

Idle ==
    /\ pc = "start"
    /\ i = 0
    /\ j = 0
    /\ changes = <<>>
    /\ result = <<>>
    /\ iters = 0
    /\ eq = FALSE
    /\ calls = 0
    /\ registry_keys = REGISTERED
    /\ NoWalk
    /\ account = <<>>

InitRun ==
    /\ \E p \in RunInputs : oldnode = Root(p[1]) /\ newnode = Root(p[2])
    /\ Idle

InitSame ==
    /\ \E f \in SameInputs : oldnode = Root(f) /\ newnode = Root(f)
    /\ Idle

\* pprint(recurse_diff(node_factory(content1), node_factory(content2)))
Run ==
    /\ pc = "start"
    /\ IF recurse_diff_raises(oldnode, newnode)
       THEN pc' = "raised" /\ result' = <<>>
       ELSE pc' = "done" /\ result' = recurse_diff(oldnode, newnode)
    /\ registry_keys' =
           registry_keys \cup Lookup(oldnode) \cup Lookup(newnode)
               \cup DrawnByCall(oldnode, newnode)
    /\ UNCHANGED <<oldnode, newnode, i, j, changes, iters, eq, calls, walker, account>>

NextRun == Run

SpecRun == InitRun /\ [][NextRun]_vars

SpecSame == InitSame /\ [][NextRun]_vars

\* documents whose roots differ in tag, attributes and text
MaxRootKids == 1

Roots ==
    {Element(tag, attrib, txt, kids) :
         tag \in {"root", "KeyTrack", "LeftTime"},
         attrib \in {{}, {<<"dummy", <<"1">>>>}},
         txt \in {None, Some(<<"x">>)},
         kids \in SeqsUpTo(MaxRootKids, {PlainA, TextA})}

InitRoots ==
    /\ oldnode \in Roots
    /\ newnode \in Roots
    /\ Idle

SpecRoots == InitRoots /\ [][NextRun]_vars

----------------------------------------------------------------------------
(* shallow_equal applied to a pair of time-value elements                  *)

MaxFrac == 3

TimeDigits == {"0", "4", "5", "6"}

\* the numerals 1[.f] with at most n fractional digits
Numerals(n) ==
    {<<"1">> \o (IF f = <<>> THEN <<>> ELSE <<".">> \o f) : f \in SeqsUpTo(n, TimeDigits)}

MixedValues ==
    {<<"1">>, <<"1", ".", "0", "0", "4">>, <<"-", "1", ".", "0", "0", "4">>,
     <<"1", ".", "0", "1">>, <<"-", "1", ".", "0", "5", "5">>,
     <<"-", "1", ".", "0", "6", "5">>}

TimeElement(tag, v, extra, txt) == Element(tag, {<<"Value", v>>} \cup extra, txt, <<>>)

\* time-value elements that differ in tag, text and other attributes as well
MixedTimes ==
    {TimeElement(tag, v, extra, txt) :
         tag \in {"LeftTime", "RightTime"},
         v \in MixedValues,
         extra \in {{}, {<<"dummy", <<"1">>>>}},
         txt \in {None, Some(<<"x">>), Some(<<" ">>)}}

TimeInputs ==
    {<<Left(v), Left(w)>> : v \in Numerals(MaxFrac), w \in Numerals(MaxFrac)}
        \cup (MixedTimes \X MixedTimes)

InitTime ==
    /\ \E p \in TimeInputs : oldnode = p[1] /\ newnode = p[2]
    /\ Idle

\* old_child.shallow_equal(new_child)
Compare ==
    /\ pc = "start"
    /\ IF shallow_equal_raises(oldnode, newnode)
       THEN pc' = "raised" /\ eq' = FALSE
       ELSE pc' = "compared" /\ eq' = shallow_equal(oldnode, newnode)
    /\ UNCHANGED <<oldnode, newnode, i, j, changes, result, iters, calls, registry_keys, walker, account>>

NextTime == Compare

SpecTime == InitTime /\ [][NextTime]_vars

----------------------------------------------------------------------------
(* shallow_equal applied to a pair of generic elements                     *)

MaxText == 3

\* the texts an element can have: none, or a string of at most n characters
Texts(n) == {None} \cup {Some(t) : t \in SeqsUpTo(n, {" ", "\n", "x"})}

\* elements that differ in tag, attributes and children as well
MixedGenerics ==
    {Element(tag, attrib, txt, kids) :
         tag \in {"a", "b"},
         attrib \in {{}, {<<"dummy", <<"1">>>>}, {<<"dummy", <<"2">>>>},
                     {<<"dummy", <<"1">>>>, <<"other", <<"1">>>>}},
         txt \in {None, Some(<<"x">>), Some(<<"y">>), Some(<<"\t", "\r">>)},
         kids \in {<<>>, <<PlainB>>}}

GenericInputs ==
    {<<Element("a", {}, t, <<>>), Element("a", {}, u, <<PlainB>>)>> :
         t \in Texts(MaxText), u \in Texts(MaxText)}
        \cup (MixedGenerics \X MixedGenerics)

InitGeneric ==
    /\ \E p \in GenericInputs : oldnode = p[1] /\ newnode = p[2]
    /\ Idle

SpecGeneric == InitGeneric /\ [][NextTime]_vars

----------------------------------------------------------------------------
(* Scene.describe                                                          *)

MaxName == 2

\* the characters of the attribute names used on Scene elements
Chars(key) ==
    CASE key = "Value" -> <<"V", "a", "l", "u", "e">>
      [] key = "Id" -> <<"I", "d">>
      [] key = "Xy" -> <<"X", "y">>
      [] key = "Annotation" -> <<"A", "n", "n", "o", "t", "a", "t", "i", "o", "n">>

\* attributes = dict(self.node.attrib.items()); name = attributes.pop("Value")
\* raises KeyError without a Value; `for k, v in attributes` goes over the
\* names of the dict and unpacks each name into k, v, which raises ValueError
\* unless the name has two characters
Scene_describe_raises(n) ==
    \/ ~HasAttr(n.attrib, "Value")
    \/ \E p \in Pop(n.attrib, "Value") : Len(Chars(p[1])) # 2

\* '%s="%s"' % (k, v), k and v being the two characters of the name
Formatted(key) == <<Chars(key)[1], "=", "\"", Chars(key)[2], "\"">>

RECURSIVE Joined(_)
\* " ".join(...) over the names in the order the dict yields them
Joined(keys) ==
    IF keys = <<>> THEN <<>>
    ELSE IF Len(keys) = 1 THEN Formatted(keys[1])
    ELSE Formatted(keys[1]) \o <<" ">> \o Joined(Tail(keys))

\* if attributes_str: output += " " + attributes_str
Decorated(output, attributes_str) ==
    IF attributes_str # <<>> THEN output \o <<" ">> \o attributes_str ELSE output

\* Scene.describe when it returns, keys being the dict's iteration order
Scene_describe(n, keys) ==
    Decorated(<<"<", "S", "c", "e", "n", "e", " ", "[">>
                  \o Strip(Attr(n.attrib, "Value")) \o <<"]">>, Joined(keys))
        \o <<" ", "/", ">">>

\* the orders in which a dict with the names ks can yield them
Orders(ks) ==
    {o \in [1..Cardinality(ks) -> ks] : \A a, b \in 1..Cardinality(ks) : o[a] = o[b] => a = b}

Names(attrib) == {p[1] : p \in attrib}

Scenes ==
    {Element("Scene", value \cup extra, None, <<>>) :
         value \in {{}} \cup {{<<"Value", v>>} : v \in SeqsUpTo(MaxName, {" ", "A", "b"})},
         extra \in SUBSET {<<"Id", <<"1">>>>, <<"Xy", <<"2">>>>, <<"Annotation", <<"z">>>>}}

InitScene ==
    /\ oldnode \in Scenes
    /\ newnode = Root(<<>>)
    /\ Idle

\* repr(node): self.describe()
Describe ==
    /\ pc = "start"
    /\ IF Scene_describe_raises(oldnode)
       THEN pc' = "raised" /\ result' = <<>>
       ELSE /\ pc' = "described"
            /\ \E keys \in Orders(Names(Pop(oldnode.attrib, "Value"))) :
                   result' = Scene_describe(oldnode, keys)
    /\ UNCHANGED <<oldnode, newnode, i, j, changes, iters, eq, calls, registry_keys,
                   walker, account>>

NextScene == Describe

SpecScene == InitScene /\ [][NextScene]_vars

----------------------------------------------------------------------------
(* ableton_gitlog.run: the diffs of a file's successive revisions          *)

MaxRevs == 3

RefNames == <<"c1", "c2", "c3", "c4", "c5">>

\* the revision at place k of the history, newest first
Revision(k, content) == [ref |-> RefNames[k], name |-> "set.als", content |-> content]

Contents ==
    {Root(<<>>), Root(<<PlainA>>), Root(<<PlainA, PlainB>>),
     Root(<<KeyTrack(<<MidiKey(<<"6", "0">>)>>)>>)}

Histories ==
    UNION {{[k \in 1..n |-> Revision(k, c[k])] : c \in [1..n -> Contents]} : n \in 0..MaxRevs}

RECURSIVE LogLines(_)
\* the lines of git log --format=%H --name-only: hash, empty line, file name
LogLines(r) ==
    IF r = <<>> THEN <<>> ELSE <<Head(r).ref, "", Head(r).name>> \o LogLines(Tail(r))

\* gitcmd.log(...).split("\n"): the output of an empty history is one empty line
gitlog(r) == IF r = <<>> THEN <<"">> ELSE LogLines(r)

\* lines[start::3], start counted from 0
EveryThird(lines, start) ==
    [k \in 1..((Len(lines) - start + 2) \div 3) |-> lines[start + 3 * (k - 1) + 1]]

Min(a, b) == IF a <= b THEN a ELSE b

zip(a, b) == [k \in 1..Min(Len(a), Len(b)) |-> <<a[k], b[k]>>]

refs_names(r) == zip(EveryThird(gitlog(r), 0), EveryThird(gitlog(r), 2))

\* repo.commit(ref).tree[filename], parsed
get_contents(r, ref, filename) ==
    (CHOOSE v \in {r[k] : k \in 1..Len(r)} : v.ref = ref /\ v.name = filename).content

InitWalk ==
    /\ repo \in Histories
    /\ pc = "first"
    /\ oldnode = Root(<<>>)
    /\ newnode = Root(<<>>)
    /\ i = 0
    /\ j = 0
    /\ changes = <<>>
    /\ result = <<>>
    /\ iters = 0
    /\ eq = FALSE
    /\ calls = 0
    /\ registry_keys = REGISTERED
    /\ cursor = 0
    /\ diffs = <<>>
    /\ printed = <<>>
    /\ account = <<>>

\* ref, name = next(ref_names_iterator); new_content = get_contents(ref, name)
First ==
    /\ pc = "first"
    /\ IF refs_names(repo) = <<>>
       THEN pc' = "raised" /\ UNCHANGED <<newnode, cursor>>
       ELSE /\ pc' = "walk"
            /\ cursor' = 1
            /\ newnode' = get_contents(repo, refs_names(repo)[1][1], refs_names(repo)[1][2])
    /\ UNCHANGED <<oldnode, i, j, changes, result, iters, eq, calls, registry_keys,
                   repo, diffs, printed, account>>

\* what one pass of the for loop prints, the diff having returned res
Output(old_ref, res) == <<<<"log", old_ref>>, <<"">>, <<"pprint", res>>>>

\* one pass of `for old_ref, old_name in ref_names_iterator`
Step ==
    /\ pc = "walk"
    /\ cursor < Len(refs_names(repo))
    /\ oldnode' = get_contents(repo, refs_names(repo)[cursor + 1][1],
                               refs_names(repo)[cursor + 1][2])
    /\ diffs' = Append(diffs, <<oldnode', newnode>>)
    /\ registry_keys' =
           registry_keys \cup Lookup(oldnode') \cup Lookup(newnode)
               \cup DrawnByCall(oldnode', newnode)
    /\ IF recurse_diff_raises(oldnode', newnode)
       THEN /\ pc' = "raised"
            /\ printed' = printed \o <<<<"log", refs_names(repo)[cursor + 1][1]>>, <<"">>>>
            /\ UNCHANGED <<newnode, result, cursor>>
       ELSE /\ pc' = "walk"
            /\ result' = recurse_diff(oldnode', newnode)
            /\ printed' = printed \o Output(refs_names(repo)[cursor + 1][1], result')
            /\ newnode' = oldnode'
            /\ cursor' = cursor + 1
    /\ UNCHANGED <<i, j, changes, iters, eq, calls, repo, account>>

\* the iterator is exhausted: run returns
Last ==
    /\ pc = "walk"
    /\ cursor = Len(refs_names(repo))
    /\ pc' = "done"
    /\ UNCHANGED <<oldnode, newnode, i, j, changes, result, iters, eq, calls,
                   registry_keys, walker, account>>

NextWalk ==
    \/ First
    \/ Step
    \/ Last

SpecWalk == InitWalk /\ [][NextWalk]_vars

----------------------------------------------------------------------------
(* Properties                                                              *)

Done == pc = "done"

Ended == pc \in {"done", "raised"}

\* the comparison of x with y returns True
Equal(x, y) == ~shallow_equal_raises(x, y) /\ shallow_equal(x, y)

\* the comparison of x with y returns False, whichever side makes it
Unequal(x, y) ==
    /\ ~shallow_equal_raises(x, y) /\ ~shallow_equal(x, y)
    /\ ~shallow_equal_raises(y, x) /\ ~shallow_equal(y, x)

PairwiseUnequal(s) == \A a, b \in 1..Len(s) : a # b => Unequal(s[a], s[b])

RECURSIVE WellFormed(_)
\* every time-value element has a Value, every KeyTrack a MidiKey/@Value
WellFormed(n) ==
    /\ registry(n.tag) = "LeftTime" => HasAttr(n.attrib, "Value")
    /\ n.tag = "KeyTrack" => xpath_MidiKey_Value(n) # <<>>
    /\ \A k \in 1..Len(n.kids) : WellFormed(n.kids[k])

RECURSIVE Depth(_)
Depth(n) ==
    IF n.kids = <<>> THEN 0
    ELSE 1 + CHOOSE d \in {Depth(n.kids[k]) : k \in 1..Len(n.kids)} :
                 \A k \in 1..Len(n.kids) : Depth(n.kids[k]) <= d

\* C1: the diff of a well-formed tree with itself is the empty list
\* (SpecSame: both arguments are the same tree, of any shape and depth)
Identity == (Ended /\ WellFormed(oldnode)) => (Done /\ result = <<>>)

\* a well-formed tree two levels deep below the root, with a text element, a
\* time value or a keyed track in it, has been diffed with itself
IdentityWitness ==
    /\ Done
    /\ WellFormed(oldnode)
    /\ Depth(oldnode) >= 2
    /\ \E k \in 1..Len(oldnode.kids) : oldnode.kids[k].tag \in {"KeyTrack", "LeftTime", "a"}

\* the positions p of nc such that nc is oc with one child, unequal to every
\* child of oc, put in at p, the children of oc being pairwise unequal
InsertedAt(oc, nc) ==
    {p \in 1..Len(nc) :
        /\ RemoveAt(nc, p) = oc
        /\ PairwiseUnequal(oc)
        /\ \A k \in 1..Len(oc) : Unequal(oc[k], nc[p])}

RECURSIVE SingleInsertion(_, _)
\* the results the single-insertion scenario allows for recurse_diff(old, new):
\* the one added record at the level of the insertion, wrapped in a changed
\* record for each ancestor (whose siblings are the same in old and new)
SingleInsertion(old, new) ==
    LET oc == iter_children(old)
        nc == iter_children(new)
    IN  {<< <<"added", nc[p]>> >> : p \in InsertedAt(oc, nc)}
          \cup UNION {
                 {<< <<"changed", nc[q], r>> >> : r \in SingleInsertion(oc[q], nc[q])}
                 : q \in {q \in 1..Len(oc) :
                             /\ Len(nc) = Len(oc)
                             /\ \A k \in 1..Len(oc) : k # q => oc[k] = nc[k] /\ Equal(oc[k], nc[k])
                             /\ Equal(oc[q], nc[q])}}

\* C2: one child inserted among pairwise unequal children gives exactly one
\* added record, under a chain of changed records for the ancestors
OneInsertion ==
    \A r \in SingleInsertion(oldnode, newnode) : Ended => (Done /\ result = r)

\* an insertion at the start, in the middle and at the end, and one below a child
OneInsertionStart ==
    Done /\ Len(old_children) >= 1 /\ 1 \in InsertedAt(old_children, new_children)

OneInsertionMiddle ==
    /\ Done
    /\ \E p \in InsertedAt(old_children, new_children) : 1 < p /\ p < Len(new_children)

OneInsertionEnd ==
    /\ Done /\ Len(old_children) >= 1
    /\ Len(new_children) \in InsertedAt(old_children, new_children)

OneInsertionNested ==
    /\ Done
    /\ \E r \in SingleInsertion(oldnode, newnode) : r[1][1] = "changed"

\* the positions p of oc such that nc is oc, pairwise unequal, without its p-th child
DeletedAt(oc, nc) ==
    {p \in 1..Len(oc) : RemoveAt(oc, p) = nc /\ PairwiseUnequal(oc)}

\* C3: one child deleted from pairwise unequal children gives exactly one
\* removed record
OneDeletion ==
    \A p \in DeletedAt(old_children, new_children) :
        Ended => (Done /\ result = << <<"removed", old_children[p]>> >>)

OneDeletionMiddle ==
    /\ Done
    /\ \E p \in DeletedAt(old_children, new_children) : 1 < p /\ p < Len(old_children)

\* the positions p where oc and nc, of one length and each pairwise unequal,
\* differ, all the other positions holding the same child
ReplacedAt(oc, nc) ==
    {p \in 1..Len(oc) :
        /\ Len(nc) = Len(oc)
        /\ PairwiseUnequal(oc)
        /\ PairwiseUnequal(nc)
        /\ \A k \in 1..Len(oc) : k # p => oc[k] = nc[k]
        /\ \A k \in 1..Len(nc) : Unequal(oc[p], nc[k])}

\* C4: one child changed in place gives the removed old child followed by the
\* added new child, and no changed record for it
OneChange ==
    \A p \in ReplacedAt(old_children, new_children) :
        Ended => (Done /\ result = << <<"removed", old_children[p]>>,
                                      <<"added", new_children[p]>> >>)

OneChangeMiddle ==
    /\ Done
    /\ \E p \in ReplacedAt(old_children, new_children) : 1 < p /\ p < Len(old_children)

\* the old child compared unequal to the new one
Differs(x, y) == ~shallow_equal_raises(x, y) /\ ~shallow_equal(x, y)

RECURSIVE ChangedWhereEqual(_, _, _)
\* every changed record of res, at every level, carries a new child that
\* compares equal to a child of the old node at that level
ChangedWhereEqual(old, new, res) ==
    LET oc == iter_children(old)
        nc == iter_children(new)
    IN  \A k \in 1..Len(res) :
            res[k][1] = "changed" =>
                \E a \in 1..Len(oc), b \in 1..Len(nc) :
                    /\ nc[b] = res[k][2]
                    /\ Equal(oc[a], nc[b])
                    /\ ChangedWhereEqual(oc[a], nc[b], res[k][3])

OneEach ==
    /\ Len(old_children) = 1
    /\ Len(new_children) = 1
    /\ Differs(old_children[1], new_children[1])

\* C5: old [X] and new [Y] with X unequal to Y give [removed X, added Y], and a
\* changed record is only ever emitted for a pair that compared equal
NoSpuriousChanged ==
    /\ (Ended /\ OneEach) =>
           (Done /\ result = << <<"removed", old_children[1]>>,
                                <<"added", new_children[1]>> >>)
    /\ Done => ChangedWhereEqual(oldnode, newnode, result)

\* X and Y have the same tag and differ in their text, attributes or Value
NoSpuriousChangedWitness ==
    Done /\ OneEach /\ old_children[1].tag = new_children[1].tag

RECURSIVE Mirrors(_, _)
\* every removed (added) record of rab has its node added (removed) in rba, and
\* what lies under a changed record of rab is mirrored under one of rba
Mirrors(rab, rba) ==
    /\ \A k \in 1..Len(rab) :
           rab[k][1] = "removed" => \E l \in 1..Len(rba) : rba[l] = <<"added", rab[k][2]>>
    /\ \A k \in 1..Len(rab) :
           rab[k][1] = "added" => \E l \in 1..Len(rba) : rba[l] = <<"removed", rab[k][2]>>
    /\ \A k \in 1..Len(rab) :
           rab[k][1] = "changed" =>
               \E l \in 1..Len(rba) : rba[l][1] = "changed" /\ Mirrors(rab[k][3], rba[l][3])

\* the removed and added records of the top level of rab are mirrored in rba
MirrorsTop(rab, rba) ==
    /\ \A k \in 1..Len(rab) :
           rab[k][1] = "removed" => \E l \in 1..Len(rba) : rba[l] = <<"added", rab[k][2]>>
    /\ \A k \in 1..Len(rab) :
           rab[k][1] = "added" => \E l \in 1..Len(rba) : rba[l] = <<"removed", rab[k][2]>>

\* both calls return
BothReturn == Done /\ ~recurse_diff_raises(newnode, oldnode)

SameOrder(oc, nc) ==
    /\ PairwiseUnequal(oc)
    /\ PairwiseUnequal(nc)
    /\ \A a \in 1..Len(oc), b \in 1..Len(nc) : Equal(oc[a], nc[b]) \/ Unequal(oc[a], nc[b])
    /\ \A a, c \in 1..Len(oc), b, d \in 1..Len(nc) :
           (a < c /\ Equal(oc[a], nc[b]) /\ Equal(oc[c], nc[d])) => b < d

RECURSIVE WithoutIgnored(_)
\* the element with every descendant of an ignored tag (and its subtree) deleted
WithoutIgnored(n) ==
    LET IsKept(k) == k.tag \notin IGNORED_TAGS
        kept      == SelectSeq(n.kids, IsKept)
    IN  [n EXCEPT !.kids = [k \in 1..Len(kept) |-> WithoutIgnored(kept[k])]]

RECURSIVE RecordsWithoutIgnored(_)
\* the change list with the ignored descendants deleted from the nodes it carries
RecordsWithoutIgnored(res) ==
    [k \in 1..Len(res) |->
        IF res[k][1] = "changed"
        THEN <<"changed", WithoutIgnored(res[k][2]), RecordsWithoutIgnored(res[k][3])>>
        ELSE <<res[k][1], WithoutIgnored(res[k][2])>>]

RECURSIVE CarriesIgnored(_)
\* some record of the change list, at some level, is about an ignored element
CarriesIgnored(res) ==
    \E k \in 1..Len(res) :
        \/ res[k][2].tag \in IGNORED_TAGS
        \/ res[k][1] = "changed" /\ CarriesIgnored(res[k][3])

\* C7: the diff of two documents is the diff of the documents without their
\* ignored elements, so any two documents that differ only by inserted, deleted
\* or altered ignored elements (at any depth) have the same diff against any
\* other document; no record is about an ignored element
IgnoredInvisible ==
    /\ Ended =>
           ((pc = "raised") <=>
                recurse_diff_raises(WithoutIgnored(oldnode), WithoutIgnored(newnode)))
    /\ Done =>
           /\ RecordsWithoutIgnored(result)
                  = recurse_diff(WithoutIgnored(oldnode), WithoutIgnored(newnode))
           /\ ~CarriesIgnored(result)

\* ignored elements at the root level of one document and below a child of the
\* other, in a pair of documents whose diff is not empty
IgnoredInvisibleWitness ==
    /\ Done
    /\ result # <<>>
    /\ \E k \in 1..Len(newnode.kids) : newnode.kids[k].tag \in IGNORED_TAGS
    /\ \E k \in 1..Len(oldnode.kids) :
           /\ oldnode.kids[k].tag \notin IGNORED_TAGS
           /\ oldnode.kids[k] # WithoutIgnored(oldnode.kids[k])

Compared == pc = "compared"

Max(a, b) == IF a >= b THEN a ELSE b

Abs(a) == IF a >= 0 THEN a ELSE 0 - a

\* the Value of element n, read as a decimal number, in units of 10^-k
ValueIn(n, k) ==
    LET d == Decimal(Attr(n.attrib, "Value"))
    IN  (IF d.neg THEN 0 - d.coef ELSE d.coef) * Pow10(k - d.frac)

\* a number of fractional digits that the Value of n and 0.005 can be written with
OwnDigits(n) == Max(3, Decimal(Attr(n.attrib, "Value")).frac)

\* a number of fractional digits that both Values and 0.005 can be written with
Digits(n, m) == Max(OwnDigits(n), OwnDigits(m))

\* |Value of n - Value of m|, in units of 10^-Digits(n, m)
Distance(n, m) == Abs(ValueIn(n, Digits(n, m)) - ValueIn(m, Digits(n, m)))

\* 0.005 and 0.01 in units of 10^-k
Half(k) == 5 * Pow10(k - 3)

Cent(k) == 10 * Pow10(k - 3)

\* two time-value elements alike in tag, text and every attribute but Value
AlikeButValue(n, m) ==
    /\ n.tag = m.tag
    /\ text_equal(text(n), text(m))
    /\ Pop(n.attrib, "Value") = Pop(m.attrib, "Value")

\* C8 as stated: Values less than 0.005 apart compare equal
ToleranceEqual ==
    (Compared /\ AlikeButValue(oldnode, newnode)
        /\ Distance(oldnode, newnode) < Half(Digits(oldnode, newnode))) => eq

\* h hundredths is the multiple of 0.01 nearest the Value of n, a tie going to
\* the even one
Nearest(n, h) ==
    LET k == OwnDigits(n)
        d == Abs(ValueIn(n, k) - h * Cent(k))
    IN  d < Half(k) \/ (d = Half(k) /\ h % 2 = 0)

\* the hundredths just below the Value of n
Floor(n) == ValueIn(n, OwnDigits(n)) \div Cent(OwnDigits(n))

\* the Value of n is a whole number of hundredths
WholeCents(n) == ValueIn(n, OwnDigits(n)) % Cent(OwnDigits(n)) = 0

\* the two Values have the same nearest multiple of 0.01
SameCent(n, m) == \E h \in {Floor(n), Floor(n) + 1} : Nearest(n, h) /\ Nearest(m, h)

\* elements alike but for Value compare equal exactly when both Values round
\* to the same two-digit number
QuantizedCompare ==
    AlikeButValue(oldnode, newnode) => (eq <=> SameCent(oldnode, newnode))

\* C9 as stated: Values 0.01 or more apart never compare equal, whatever else
\* the two elements carry, the comparison being made on the rounded Values
ToleranceUnequal ==
    Compared =>
        /\ Distance(oldnode, newnode) >= Cent(Digits(oldnode, newnode)) => ~eq
        /\ QuantizedCompare

\* C9, amended: Values more than 0.01 apart never compare equal, whatever else
\* the two elements carry, the comparison being made on the Values rounded to
\* two digits, ties to the even digit
ToleranceUnequalStrict ==
    Compared =>
        /\ Distance(oldnode, newnode) > Cent(Digits(oldnode, newnode)) => ~eq
        /\ QuantizedCompare

\* Values between 0.01 and 0.02 apart, neither a whole number of hundredths
ToleranceUnequalWitness ==
    /\ Compared
    /\ AlikeButValue(oldnode, newnode)
    /\ Distance(oldnode, newnode) > Cent(Digits(oldnode, newnode))
    /\ Distance(oldnode, newnode) < 2 * Cent(Digits(oldnode, newnode))
    /\ ~WholeCents(oldnode)
    /\ ~WholeCents(newnode)
    /\ ~eq

\* the iterations so far that stayed in the loop number at most n + m, and
\* neither cursor is past the end of its sequence
IterationBound ==
    /\ iters <= Len(old_children) + Len(new_children)
    /\ i <= Len(old_children)
    /\ j <= Len(new_children)

\* an iteration that stays in the loop moves no cursor back and moves the old
\* or the new cursor forward
Advances ==
    (pc = "loop" /\ pc' = "loop") =>
        /\ iters' = iters + 1
        /\ i' >= i
        /\ j' >= j
        /\ i' > i \/ j' > j

\* C10: every iteration of the alignment loop that does not leave the loop
\* advances the old or the new cursor, and there are at most n + m of them
\* for n old and m new children
Termination == [][Advances]_vars /\ []IterationBound

\* a run that took n + m iterations, the new cursor having been put back
TerminationWitness ==
    /\ pc = "done"
    /\ iters = Len(old_children) + Len(new_children)
    /\ Len(old_children) > 0
    /\ Len(new_children) > 0

\* C11: at one level with n old and m new children the alignment loop calls
\* shallow_equal at most n * m times, rescans after a rollback included
ComparisonBound == calls <= Len(old_children) * Len(new_children)

\* a finished run of two old against two new children that made all four
\* comparisons, the second old child rescanning after the rollback
ComparisonBoundWitness ==
    /\ pc = "done"
    /\ Len(old_children) = 2
    /\ Len(new_children) = 2
    /\ calls = 4

\* the entry of changes at p is an added or removed record
IsEdit(p) == changes[p][1] \in {"added", "removed"}

\* the nested diff of the pair recorded as unchanged at p
NestedDiff(p) == recurse_diff(changes[p][2], changes[p][3])

\* the entries of changes that leave a record in the result
Recorded == {p \in 1..Len(changes) : IsEdit(p) \/ NestedDiff(p) # <<>>}

\* the position in the result of the record left by entry p
Rank(p) == Cardinality({q \in Recorded : q <= p})

RECURSIVE NoEmptyChanged(_)
\* no changed record of the list r, at any depth, has an empty nested list
NoEmptyChanged(r) ==
    \A k \in 1..Len(r) :
        r[k][1] = "changed" => (r[k][3] # <<>> /\ NoEmptyChanged(r[k][3]))

\* C12: each pair recorded as unchanged is diffed on its children and leaves
\* ('changed', new member, nested diff) at its own place in the output exactly
\* when the nested diff is not empty; added and removed records are kept as
\* they are; no changed record of any depth has an empty nested list
ChangedRecords ==
    Done =>
        /\ Len(result) = Cardinality(Recorded)
        /\ \A p \in Recorded :
               result[Rank(p)] =
                   IF IsEdit(p) THEN changes[p]
                   ELSE <<"changed", changes[p][3], NestedDiff(p)>>
        /\ NoEmptyChanged(result)

\* a finished run with an unchanged pair whose children differ after an
\* unchanged pair whose children do not, the old and new member being distinct
ChangedRecordsWitness ==
    /\ Done
    /\ \E p, q \in 1..Len(changes) :
           /\ p < q
           /\ ~IsEdit(p) /\ NestedDiff(p) = <<>>
           /\ ~IsEdit(q) /\ NestedDiff(q) # <<>>
           /\ changes[q][2] # changes[q][3]
           /\ result[Rank(q)][1] = "changed"

\* C13 as stated: no step of a call changes either input tree or the keys of
\* the tag registry shared by all calls
Purity ==
    [][/\ oldnode' = oldnode
       /\ newnode' = newnode
       /\ registry_keys' = registry_keys]_vars

\* a KeyTrack element without MidiKey/@Value
KeyMissing(n) == n.tag = "KeyTrack" /\ xpath_MidiKey_Value(n) = <<>>

\* such an element is among the children aligned at the root level
KeyMissingAmong(s) == \E k \in 1..Len(s) : KeyMissing(s[k])

\* C14 as stated: with a KeyTrack lacking MidiKey/@Value among the old or the
\* new children being aligned, the call ends in an error and returns no list
MissingKeyFatal ==
    (Ended /\ (KeyMissingAmong(old_children) \/ KeyMissingAmong(new_children)))
        => pc = "raised"

\* C15 as stated: on documents where every KeyTrack has MidiKey/@Value and
\* every time value has Value, the call returns a change list and never raises
NoFailure == (Ended /\ WellFormed(oldnode) /\ WellFormed(newnode)) => Done

\* the n-th diff made by the walker compared the n-th newest revision, as new,
\* with the revision before it, as old
Adjacent(n) == diffs[n] = <<repo[n + 1].content, repo[n].content>>

\* C16 as stated: over k >= 1 revisions the walker makes exactly k - 1 diffs,
\* the i-th of revision i + 1 (old) against revision i (new), newest first
WalkerPairing ==
    /\ \A n \in 1..Len(diffs) : n < Len(repo) /\ Adjacent(n)
    /\ (Ended /\ Len(repo) >= 1) => Len(diffs) = Len(repo) - 1

\* the same for the walks in which every diff returns
WalkerPairingReturned ==
    /\ \A n \in 1..Len(diffs) : n < Len(repo) /\ Adjacent(n)
    /\ (Done /\ Len(repo) >= 1) => Len(diffs) = Len(repo) - 1

\* the branch that the next outer iteration takes
Taking(b) == pc = "loop" /\ Branch(old_children, new_children, St) = b

\* C17 as stated: the iteration in which the scan finds a match leaves the old
\* cursor where it was, so that the same old child is compared again
OldCursorStays == [][Taking("found") => i' = i]_vars

\* C17, amended: the old cursor advances by one in every iteration that had an
\* old child left, the one in which the scan finds a match included; after a
\* match the next iteration takes the next old child and the new child after
\* the match
OldCursorAdvances ==
    [][/\ (pc = "loop" /\ i < Len(old_children)) => i' = i + 1
       /\ Taking("found") =>
              /\ i' = i + 1
              /\ j' > j + 1
              /\ Equal(old_children[i'], new_children[j'])]_vars

\* the scan has just matched the first old child with the second new child,
\* and another old child is left
OldCursorAdvancesWitness ==
    /\ pc = "loop"
    /\ i = 1
    /\ j = 2
    /\ changes = <<<<"added", new_children[1]>>>>
    /\ Equal(old_children[1], new_children[2])
    /\ Len(old_children) = 2

\* an old and a new child are left, and the old child compares unequal, without
\* an error, to the new child under the cursor and to every one after it
ScanFails ==
    /\ pc = "loop"
    /\ i < Len(old_children)
    /\ j < Len(new_children)
    /\ \A k \in (j + 1)..Len(new_children) :
           /\ ~shallow_equal_raises(old_children[i + 1], new_children[k])
           /\ ~shallow_equal(old_children[i + 1], new_children[k])

\* C18: when the scan reaches the end of the new sequence without a match, the
\* iteration appends ('removed', old child) and nothing else, leaves the new
\* cursor where it was before the new child was taken, and advances the old
\* cursor by one
NoMatchRollback ==
    [][ScanFails =>
           /\ changes' = Append(changes, <<"removed", old_children[i + 1]>>)
           /\ j' = j
           /\ i' = i + 1
           /\ pc' = "loop"]_vars

\* the first old child has just been reported removed after a scan over two
\* new children, both still to be compared
NoMatchRollbackWitness ==
    /\ pc = "loop"
    /\ i = 1
    /\ j = 0
    /\ Len(new_children) = 2
    /\ changes = <<<<"removed", old_children[1]>>>>

\* an old and a new child are left, and the new child at k is the first one
\* after the new child under the cursor that compares equal to the old child,
\* every comparison before it returning False
ScanFinds(k) ==
    /\ pc = "loop"
    /\ i < Len(old_children)
    /\ j + 2 <= k
    /\ k <= Len(new_children)
    /\ \A m \in (j + 1)..(k - 1) :
           /\ ~shallow_equal_raises(old_children[i + 1], new_children[m])
           /\ ~shallow_equal(old_children[i + 1], new_children[m])
    /\ Equal(old_children[i + 1], new_children[k])

\* C19: when the scan finds a match it is the first equal new child after the
\* current one; the new children from the current one up to the match, the
\* match left out, are appended as added in their order and nothing else is;
\* the new cursor is left just after the match, and it never moves back
MatchFoundCommit ==
    [][/\ \A k \in 1..Len(new_children) :
              ScanFinds(k) =>
                  /\ changes' = changes \o [x \in 1..(k - j - 1) |-> <<"added", new_children[j + x]>>]
                  /\ j' = k
                  /\ pc' = "loop"
       /\ j' >= j]_vars

\* the scan has just matched the old child with the third new child and
\* committed the two new children before it
MatchFoundCommitWitness ==
    /\ pc = "loop"
    /\ j = 3
    /\ changes = <<<<"added", new_children[1]>>, <<"added", new_children[2]>>>>
    /\ Equal(old_children[1], new_children[3])

\* C20: with the old children exhausted each iteration appends the next new
\* child as added; with the new children exhausted each iteration appends the
\* next old child as removed; the loop is left by its break exactly when both
\* are exhausted, and the break appends nothing
ExhaustionTails ==
    [][/\ (pc = "loop" /\ i = Len(old_children) /\ j < Len(new_children)) =>
              /\ changes' = Append(changes, <<"added", new_children[j + 1]>>)
              /\ j' = j + 1
              /\ i' = i
              /\ pc' = "loop"
       /\ (pc = "loop" /\ i < Len(old_children) /\ j = Len(new_children)) =>
              /\ changes' = Append(changes, <<"removed", old_children[i + 1]>>)
              /\ i' = i + 1
              /\ j' = j
              /\ pc' = "loop"
       /\ (pc = "loop" /\ i = Len(old_children) /\ j = Len(new_children)) =>
              pc' = "assemble"
       /\ (pc = "loop" /\ pc' = "assemble") =>
              /\ i = Len(old_children)
              /\ j = Len(new_children)
              /\ changes' = changes]_vars

\* the loop has ended after a removed old child and a tail of two new children
\* emitted as added, in their order
ExhaustionTailsWitness ==
    /\ pc = "assemble"
    /\ Len(old_children) = 1
    /\ Len(new_children) = 2
    /\ changes = <<<<"removed", old_children[1]>>, <<"added", new_children[1]>>,
                   <<"added", new_children[2]>>>>

\* what is left of a record when the order of two lists is compared: its kind,
\* a pair counting as one kind whether recorded unchanged or changed, and its
\* node
Key(rec) ==
    <<IF rec[1] \in {"added", "removed"} THEN rec[1] ELSE "pair",
      IF rec[1] = "unchanged" THEN rec[3] ELSE rec[2]>>

Keys(recs) == [k \in 1..Len(recs) |-> Key(recs[k])]

\* the nodes of the records of one kind, in the order of the list
NodesOf(recs, kind) ==
    LET IsKind(rec) == rec[1] = kind
    IN  [k \in 1..Len(SelectSeq(recs, IsKind)) |-> SelectSeq(recs, IsKind)[k][2]]

RECURSIVE IsSubseq(_, _)
\* s can be obtained from t by leaving elements out, the order kept
IsSubseq(s, t) ==
    IF s = <<>> THEN TRUE
    ELSE IF t = <<>> THEN FALSE
    ELSE IF Head(s) = Head(t) THEN IsSubseq(Tail(s), Tail(t))
    ELSE IsSubseq(s, Tail(t))

\* C21: the added records are committed in the order of the new children and
\* the removed records in the order of the old children, at most up to the
\* cursors; the returned list has the added and removed records of the walk in
\* the order of their commit, and its changed records between them at the
\* places of their pairs
OutputOrder ==
    /\ pc \in {"loop", "assemble", "done"} =>
           /\ IsSubseq(NodesOf(changes, "added"), SubSeq(new_children, 1, j))
           /\ IsSubseq(NodesOf(changes, "removed"), SubSeq(old_children, 1, i))
    /\ Done =>
           /\ NodesOf(result, "added") = NodesOf(changes, "added")
           /\ NodesOf(result, "removed") = NodesOf(changes, "removed")
           /\ IsSubseq(Keys(result), Keys(changes))

\* a list of a removed record, two changed records and an added record
OutputOrderWitness ==
    /\ Done
    /\ Len(result) = 4
    /\ result[1][1] = "removed"
    /\ result[2][1] = "changed"
    /\ result[3][1] = "changed"
    /\ result[4][1] = "added"

\* the place in the history, newest first, of the revision with hash ref
PlaceOf(ref) == CHOOSE n \in 1..Len(repo) : repo[n].ref = ref

\* the tree printed at p comes after the header of a revision that has a
\* predecessor, and it is the diff of that predecessor, as old, with the
\* revision, as new
OwnTree(p) ==
    /\ PlaceOf(printed[p - 2][2]) < Len(repo)
    /\ printed[p][2] =
           recurse_diff(repo[PlaceOf(printed[p - 2][2]) + 1].content,
                        repo[PlaceOf(printed[p - 2][2])].content)

\* C22 as stated: each tree printed follows the header of the revision whose
\* changes it shows, and once the walk is over every revision that has a
\* predecessor has had its header printed
RevisionLabelling ==
    /\ \A p \in 1..Len(printed) : printed[p][1] = "pprint" => OwnTree(p)
    /\ Done =>
           \A n \in 1..(Len(repo) - 1) :
               \E p \in 1..Len(printed) : printed[p] = <<"log", repo[n].ref>>

\* the places of the characters of s that are not space, tab, newline or
\* carriage return
Inked(s) == {k \in 1..Len(s) : s[k] \notin {" ", "\t", "\n", "\r"}}

\* element n has a text that is not empty after trimming
HasText(n) == n.text # None /\ Inked(n.text[1]) # {}

\* that text, from its first to its last character that is not trimmed
Trimmed(n) ==
    LET s == n.text[1]
        first == CHOOSE k \in Inked(s) : \A m \in Inked(s) : k <= m
        last == CHOOSE k \in Inked(s) : \A m \in Inked(s) : m <= k
    IN  SubSeq(s, first, last)

\* both texts absent, or both present and the same once trimmed
SameText(n, m) ==
    IF HasText(n) /\ HasText(m) THEN Trimmed(n) = Trimmed(m)
    ELSE ~HasText(n) /\ ~HasText(m)

\* the same attribute names, each with the same value
SameAttributes(n, m) ==
    /\ \A p \in n.attrib : \E q \in m.attrib : q[1] = p[1] /\ q[2] = p[2]
    /\ \A q \in m.attrib : \E p \in n.attrib : p[1] = q[1] /\ p[2] = q[2]

\* C23: two generic nodes compare equal exactly when their tags are equal,
\* their attributes are the same and their trimmed texts are equal, a missing
\* or blank text counting as absent; the comparison returns and the children
\* play no part
GenericShallowEqual ==
    /\ pc # "raised"
    /\ Compared =>
           (eq <=> /\ oldnode.tag = newnode.tag
                   /\ SameAttributes(oldnode, newnode)
                   /\ SameText(oldnode, newnode))

\* a node without text found equal to a node with a blank text and a child
GenericShallowEqualWitness ==
    /\ Compared
    /\ eq
    /\ oldnode.text = None
    /\ newnode.text # None
    /\ newnode.text[1] # <<>>
    /\ oldnode.kids # newnode.kids

\* an attribute rendered as name="value"
AsPair(attrib, key) == Chars(key) \o <<"=", "\"">> \o Attr(attrib, key) \o <<"\"">>

RECURSIVE PairsJoined(_, _)
\* the attributes named by keys rendered in that order, a space between them
PairsJoined(attrib, keys) ==
    IF keys = <<>> THEN <<>>
    ELSE IF Len(keys) = 1 THEN AsPair(attrib, keys[1])
    ELSE AsPair(attrib, keys[1]) \o <<" ">> \o PairsJoined(attrib, Tail(keys))

\* the description of Scene n with its remaining attributes in the order keys
Described(n, keys) ==
    <<"<", "S", "c", "e", "n", "e", " ", "[">> \o Strip(Attr(n.attrib, "Value")) \o <<"]">>
        \o (IF keys = <<>> THEN <<>> ELSE <<" ">> \o PairsJoined(n.attrib, keys))
        \o <<" ", "/", ">">>

\* C24 as stated: describe() of a Scene that has a Value returns, whatever its
\* other attributes, the tag decorated with the trimmed Value and followed by
\* each remaining attribute as name="value"
SceneDescription ==
    (pc \in {"described", "raised"} /\ HasAttr(oldnode.attrib, "Value")) =>
        /\ pc = "described"
        /\ \E keys \in Orders(Names(Pop(oldnode.attrib, "Value"))) :
               result = Described(oldnode, keys)

\* the entries that account for the old child at x, for the new child at y
ForOld(x) ==
    {e \in 1..Len(account) :
         \/ account[e] = <<"removed", x>>
         \/ account[e][1] = "matched" /\ account[e][2] = x}

ForNew(y) ==
    {e \in 1..Len(account) :
         \/ account[e] = <<"added", y>>
         \/ account[e][1] = "matched" /\ account[e][3] = y}

Count(kind) == Cardinality({e \in 1..Len(account) : account[e][1] = kind})

\* the children that the entries of one kind are about, in their order
Accounts(kind, children) ==
    LET IsKind(e) == e[1] = kind
    IN  [k \in 1..Len(SelectSeq(account, IsKind)) |-> children[SelectSeq(account, IsKind)[k][2]]]

\* C25: when the loop ends every old child is either removed once or the old
\* member of one matched pair, and every new child either added once or the
\* new member of one matched pair; the removed and added records are those of
\* the list, and the numbers add up to n and to m
Partition ==
    pc = "assemble" =>
        /\ \A x \in 1..Len(old_children) : Cardinality(ForOld(x)) = 1
        /\ \A y \in 1..Len(new_children) : Cardinality(ForNew(y)) = 1
        /\ Count("removed") + Count("matched") = Len(old_children)
        /\ Count("added") + Count("matched") = Len(new_children)
        /\ NodesOf(changes, "removed") = Accounts("removed", old_children)
        /\ NodesOf(changes, "added") = Accounts("added", new_children)

\* the loop has ended after a rollback, then a match found by the scan
PartitionWitness ==
    /\ pc = "assemble"
    /\ account = <<<<"removed", 1>>, <<"added", 1>>, <<"matched", 2, 2>>>>

\* the entries of account that pair an old with a new child
Pairs == {e \in 1..Len(account) : account[e][1] = "matched"}

OldOf(e) == old_children[account[e][2]]

NewOf(e) == new_children[account[e][3]]

\* C26 as stated: the children of every pair that the alignment takes for the
\* same node are diffed, so that a pair whose children differ has a changed
\* record, with the new member and that diff, in the returned list
MatchedRecursed ==
    Done =>
        \A e \in Pairs :
            recurse_diff(OldOf(e), NewOf(e)) # <<>> =>
                \E r \in 1..Len(result) :
                    result[r] = <<"changed", NewOf(e), recurse_diff(OldOf(e), NewOf(e))>>

\* C27: the pairs of one level are in increasing order of both their old and
\* their new position, and the two members of each pair compare equal
NonCrossing ==
    /\ \A e \in Pairs : Equal(OldOf(e), NewOf(e))
    /\ \A e, f \in Pairs :
           e < f => (account[e][2] < account[f][2] /\ account[e][3] < account[f][3])

\* the loop has ended with a pair found by the scan before a pair found by
\* the direct comparison
NonCrossingWitness ==
    /\ pc = "assemble"
    /\ account = <<<<"added", 1>>, <<"matched", 1, 2>>, <<"matched", 2, 3>>>>

RECURSIVE Alike(_, _)
\* a and b have as many non-ignored children, and place by place the old child
\* compares equal to the new one and the two are alike in turn
Alike(a, b) ==
    /\ Len(iter_children(a)) = Len(iter_children(b))
    /\ \A k \in 1..Len(iter_children(a)) :
           /\ Equal(iter_children(a)[k], iter_children(b)[k])
           /\ Alike(iter_children(a)[k], iter_children(b)[k])

\* C28: the call returns the empty list exactly when the two documents have
\* the same number of non-ignored children, place by place shallow-equal and
\* with an empty diff of their own
EmptyMeansEqual == Ended => ((Done /\ result = <<>>) <=> Alike(oldnode, newnode))

\* an empty list returned for two documents that are not the same document,
\* the old one having a child
EmptyMeansEqualWitness ==
    /\ Done
    /\ result = <<>>
    /\ oldnode # newnode
    /\ old_children # <<>>

RECURSIVE Mentions(_, _)
\* a record of the list r, at any depth, is about node n
Mentions(r, n) ==
    \E k \in 1..Len(r) :
        \/ r[k][2] = n
        \/ r[k][1] = "changed" /\ Mentions(r[k][3], n)

\* C29: the two nodes given to the call are not compared: the call ends as it
\* does for the same children under two plain roots, whatever the tag,
\* attributes and text of the roots; alike children give the empty list, and
\* no record is about a root
RootsNotCompared ==
    Ended =>
        /\ Done <=> ~recurse_diff_raises(Root(oldnode.kids), Root(newnode.kids))
        /\ Done =>
               /\ result = recurse_diff(Root(oldnode.kids), Root(newnode.kids))
               /\ Alike(oldnode, newnode) => result = <<>>
               /\ ~Mentions(result, oldnode)
               /\ ~Mentions(result, newnode)

\* the empty list returned for two roots of different tag and text, one of
\* them a KeyTrack without MidiKey, over the same child
RootsNotComparedWitness ==
    /\ Done
    /\ result = <<>>
    /\ oldnode.tag = "KeyTrack"
    /\ newnode.tag = "LeftTime"
    /\ oldnode.text # newnode.text
    /\ oldnode.attrib # newnode.attrib
    /\ old_children # <<>>

====
